---- MODULE Spec2Model ----
(***************************************************************************)
(* niri-compact (src/src/main.rs): a one-shot client that asks the niri    *)
(* compositor for its windows and workspaces, then rearranges the windows  *)
(* of the focused workspace into num_columns(n) columns by sending         *)
(* Action requests over a newline-delimited request/reply stream.          *)
(*                                                                         *)
(* Spec        the whole run of main(), every reply chosen by the peer.    *)
(* LayoutSpec  the same run, started from every arrangement of the         *)
(*             windows into columns.                                       *)
(* PlanSpec    the column arithmetic alone, for larger window counts.      *)
(***************************************************************************)
EXTENDS Integers, Sequences, FiniteSets, TLC

\* ------------------------------------------------------------------ bounds
\* Most windows the Windows reply lists (Spec).
MaxWindows == 3
\* Most windows of the focused workspace (LayoutSpec).
MaxLayoutWindows == 4
\* Most workspaces the Workspaces reply lists.
MaxWorkspaces == 2
\* Largest window count the column arithmetic is run on (PlanSpec).
MaxCount == 40

\* ------------------------------------------------------- column arithmetic
\* (window_count as f64).sqrt().ceil() as usize: the least k with k*k >= n.
\* An f64 holds every count below 2^53 exactly and sqrt is correctly rounded,
\* so the search below is what the float computation returns in that range.
RECURSIVE CeilSqrtFrom(_, _)
CeilSqrtFrom(n, k) == IF k * k >= n THEN k ELSE CeilSqrtFrom(n, k + 1)

CeilSqrt(n) == CeilSqrtFrom(n, 0)

Min(a, b) == IF a <= b THEN a ELSE b

\* mutant: the clamp columns.min(window_count) replaced by a floor of the root.
NumColumnsFloor(window_count) ==
    IF window_count = 0 THEN 1
    ELSE LET k == CeilSqrt(window_count)
         IN  IF k * k = window_count THEN k ELSE k - 1

\* mutant: one spare column, ceil(sqrt(n)) + 1, and no clamp.
NumColumnsSpare(window_count) ==
    IF window_count = 0 THEN 1 ELSE CeilSqrt(window_count) + 1

\* fn num_columns(window_count: usize) -> usize
NumColumns(window_count) ==
    IF window_count = 0 THEN 1
    ELSE Min(CeilSqrt(window_count), window_count)

\* mutant: floor division instead of the ceiling division.
WindowsPerColumnFloor(window_count, columns) == window_count \div columns

\* mutant: the ceiling taken as the quotient plus one.
WindowsPerColumnPlusOne(window_count, columns) == window_count \div columns + 1

\* (window_count + num_columns - 1) / num_columns
WindowsPerColumn(window_count, columns) ==
    (window_count + columns - 1) \div columns

\* column_idx * windows_per_column
StartWindow(idx, per_column) == idx * per_column

\* ((column_idx + 1) * windows_per_column).min(window_count)
EndWindow(idx, per_column, window_count) ==
    Min((idx + 1) * per_column, window_count)

\* mutant: the width as a fraction of 1 instead of a percentage.
ColumnWidthFraction(columns) == <<1, columns>>

\* 100.0 / num_columns as f64, kept as the exact quotient <<100, c>>.
ColumnWidth(columns) == <<100, columns>>

\* ------------------------------------------------------------------- state
VARIABLES
    pc,                  \* the statement of main() that runs next
    exit,                \* "running", or main's result: "ok" | "err"
    conn,                \* Unconnected | Connected | AwaitingReply | Closed
    socket_path,         \* "unread" | "present" | "missing"
    connects,            \* calls of UnixStream::connect
    sent,                \* the requests written to the stream, in order
    n_read,              \* reply lines read from the stream
    n_decoded,           \* reply lines decoded into a Reply
    q_windows,           \* the reply get_windows saw ("" before it)
    q_workspaces,        \* the reply get_workspaces saw ("" before it)
    all_handled,         \* every action reply so far was Ok(Response::Handled)
    any_err,             \* some action reply so far was Err(message)
    windows,             \* let windows
    workspaces,          \* let workspaces
    current_workspace,   \* {} before it is found, then {id}
    current_workspace_windows,   \* the ids of the windows kept by the filter
    window_count,
    num_columns,
    windows_per_column,
    column_width,
    columns_again,       \* num_columns applied to num_columns (0 before)
    win_idx,             \* position of the flatten loop (1-based)
    column_idx,          \* position of the build loop (0-based)
    consumed,            \* position of the consume loop
    slices,              \* <<start_window, end_window>> of each column built
    broke,               \* the build loop left by its break
    srv_windows,         \* compositor: the windows it reports
    srv_workspaces,      \* compositor: the workspaces it reports
    layout,              \* compositor: columns of the focused workspace
    focus,               \* compositor: {} or {id of the focused window}
    expelled             \* compositor: some expel moved a window out of a column

client_vars == <<pc, exit, conn, socket_path, connects, sent, n_read, n_decoded,
                 q_windows, q_workspaces, all_handled, any_err>>
plan_vars == <<windows, workspaces, current_workspace, current_workspace_windows,
               window_count, num_columns, windows_per_column, column_width,
               columns_again, win_idx, column_idx, consumed, slices, broke>>
srv_vars == <<srv_windows, srv_workspaces, layout, focus, expelled>>
vars == <<client_vars, plan_vars, srv_vars>>

\* -------------------------------------------------------------- data model
\* Option<u64>: None is {}, Some(v) is {v}.
None == {}
Some(v) == {v}

\* niri_ipc::Window, the fields main() reads.
Window(id, ws) == [id |-> id, workspace_id |-> ws]

\* niri_ipc::Workspace, the fields main() reads.
Workspace(id, focused) == [id |-> id, is_focused |-> focused]

\* The id of the i-th window of a reply listing k windows: ids fall while
\* positions rise, so the reply order is neither id order nor the position.
WindowId(k, i) == 10 * (k + 1 - i)

WorkspaceIds == 1 .. MaxWorkspaces

\* Every Workspaces reply: up to MaxWorkspaces workspaces, any focused flags
\* (none, one or several set).
WorkspaceLists ==
    UNION { { [i \in 1 .. k |-> Workspace(i, f[i])] : f \in [1 .. k -> BOOLEAN] }
            : k \in 0 .. MaxWorkspaces }

\* Every Windows reply of up to max windows, each on a workspace or on none.
WindowLists(max) ==
    UNION { { [i \in 1 .. k |-> Window(WindowId(k, i), ws[i])]
              : ws \in [1 .. k -> {None} \cup { Some(w) : w \in WorkspaceIds }] }
            : k \in 0 .. max }

SeqToSet(s) == { s[i] : i \in 1 .. Len(s) }

\* The injective sequences listing the set S.
RECURSIVE Perms(_)
Perms(S) ==
    IF S = {} THEN { <<>> }
    ELSE UNION { { <<x>> \o p : p \in Perms(S \ {x}) } : x \in S }

\* Every arrangement of the windows S into columns, left to right, each
\* column a non-empty top-to-bottom sequence of windows.
RECURSIVE Arrangements(_)
Arrangements(S) ==
    IF S = {} THEN { <<>> }
    ELSE UNION { UNION { { <<col>> \o rest : rest \in Arrangements(S \ T) }
                         : col \in Perms(T) }
                 : T \in (SUBSET S) \ {{}} }

\* ---------------------------------------------------------------- requests
\* niri_ipc::Request and niri_ipc::Action, the variants main() builds.
ReqWindows == [request |-> "Windows"]
ReqWorkspaces == [request |-> "Workspaces"]
ReqAction(a) == [request |-> "Action", action |-> a]

FocusWindow(id) == [name |-> "FocusWindow", id |-> id]
ExpelWindowFromColumn == [name |-> "ExpelWindowFromColumn"]
FocusColumn(index) == [name |-> "FocusColumn", index |-> index]
SetColumnDisplay(display) == [name |-> "SetColumnDisplay", display |-> display]
SetProportion(p) == [size_change |-> "SetProportion", proportion |-> p]
SetWindowWidth(id, change) ==
    [name |-> "SetWindowWidth", window |-> id, change |-> change]
ConsumeWindowIntoColumn == [name |-> "ConsumeWindowIntoColumn"]
FocusColumnFirst == [name |-> "FocusColumnFirst"]

IsAction(req) == req.request = "Action"
IsActionNamed(req, name) == IsAction(req) /\ req.action.name = name

\* What one read_line + serde_json::from_str can give:
\*   ReadErr    read_line returns Err
\*   Eof        read_line returns Ok(0): the peer closed; "" does not decode
\*   Malformed  a line that does not decode
\*   Err        a decoded Reply that is Err(message)
\*   Windows | Workspaces | Handled   a decoded Reply Ok(Response::...)
IoOutcomes == { "ReadErr", "Eof", "Malformed" }
DecodedOutcomes == { "Err", "Windows", "Workspaces", "Handled" }
Outcomes == IoOutcomes \cup DecodedOutcomes

\* --------------------------------------------------------------- compositor
\* The compositor is not part of this repository; its actions follow the
\* glossary of the specification (Expel, Consume) and the action names.
HasFocus(f) == f # None
Focused(f) == CHOOSE w \in f : TRUE

ColumnOf(lay, w) == CHOOSE c \in 1 .. Len(lay) : w \in SeqToSet(lay[c])

Without(col, w) == SelectSeq(col, LAMBDA x : x # w)

InsertAt(s, p, x) == SubSeq(s, 1, p - 1) \o <<x>> \o SubSeq(s, p, Len(s))

DropEmpty(lay) == SelectSeq(lay, LAMBDA col : col # <<>>)

Placed(lay, f) == [layout |-> lay, focus |-> f]

\* Expel: the focused window leaves its column and becomes a column of its
\* own; the glossary leaves the place of the new column open. A window that
\* is alone in its column stays where it is.
ExpelEffects(lay, f) ==
    IF ~HasFocus(f) THEN { Placed(lay, f) }
    ELSE LET w == Focused(f)
             c == ColumnOf(lay, w)
             rest == [lay EXCEPT ![c] = Without(@, w)]
         IN  IF Len(lay[c]) = 1 THEN { Placed(lay, f) }
             ELSE { Placed(InsertAt(rest, p, <<w>>), f) : p \in 1 .. Len(rest) + 1 }

\* Consume: the first window of the column right of the focused column joins
\* the bottom of the focused column.
ConsumeEffects(lay, f) ==
    IF ~HasFocus(f) THEN { Placed(lay, f) }
    ELSE LET c == ColumnOf(lay, Focused(f))
         IN  IF c = Len(lay) THEN { Placed(lay, f) }
             ELSE { Placed(DropEmpty([lay EXCEPT ![c] = Append(@, Head(lay[c + 1])),
                                                 ![c + 1] = Tail(@)]), f) }

FocusWindowEffects(lay, f, id) ==
    IF \E c \in 1 .. Len(lay) : id \in SeqToSet(lay[c])
    THEN { Placed(lay, Some(id)) }
    ELSE { Placed(lay, f) }

\* FocusColumn counts columns from 1.
FocusColumnEffects(lay, f, index) ==
    IF index \in 1 .. Len(lay)
    THEN { Placed(lay, Some(Head(lay[index]))) }
    ELSE { Placed(lay, f) }

\* What a handled action may do to the compositor's columns and focus.
Effects(a, lay, f) ==
    CASE a.name = "FocusWindow" -> FocusWindowEffects(lay, f, a.id)
      [] a.name = "ExpelWindowFromColumn" -> ExpelEffects(lay, f)
      [] a.name = "FocusColumn" -> FocusColumnEffects(lay, f, a.index)
      [] a.name = "ConsumeWindowIntoColumn" -> ConsumeEffects(lay, f)
      [] a.name = "FocusColumnFirst" -> FocusColumnEffects(lay, f, 1)
      [] OTHER -> { Placed(lay, f) }

\* ------------------------------------------------------------------- client
\* mutant: with no focused workspace the first workspace is taken.
FirstFocusedOrFirst(wss) ==
    LET flagged == { i \in 1 .. Len(wss) : wss[i].is_focused }
    IN  IF wss = <<>> THEN None
        ELSE IF flagged = {} THEN Some(wss[1].id)
        ELSE Some(wss[CHOOSE i \in flagged : \A j \in flagged : i <= j].id)

\* mutant: the last focused workspace found instead of the first.
FirstFocusedLast(wss) ==
    LET flagged == { i \in 1 .. Len(wss) : wss[i].is_focused }
    IN  IF flagged = {} THEN None
        ELSE Some(wss[CHOOSE i \in flagged : \A j \in flagged : i >= j].id)

\* workspaces.iter().find(|ws| ws.is_focused).map(|ws| ws.id)
FirstFocused(wss) ==
    LET flagged == { i \in 1 .. Len(wss) : wss[i].is_focused }
    IN  IF flagged = {} THEN None
        ELSE Some(wss[CHOOSE i \in flagged : \A j \in flagged : i <= j].id)

\* mutant: the workspace filter dropped, every window kept.
FilterWindowsAll(wins, ws_id) == wins

\* windows.iter().filter(|w| w.workspace_id == Some(current_workspace.id))
FilterWindows(wins, ws_id) ==
    SelectSeq(wins, LAMBDA w : w.workspace_id = Some(ws_id))

\* mutant: the early return on an empty window list never taken.
NoWindowsNever(wins) == FALSE

\* current_workspace_windows.is_empty() (and window_count == 0)
NoWindows(wins) == Len(wins) = 0

\* mutant: any successful reply taken as the window list.
WindowsReplyAnyOk(r) == r \in { "Windows", "Workspaces", "Handled" }

\* get_windows: Ok(Response::Windows(windows)) => Ok(windows), _ => Err
WindowsReplyOk(r) == r = "Windows"

\* get_workspaces: Ok(Response::Workspaces(workspaces)) => Ok(workspaces), _ => Err
WorkspacesReplyOk(r) == r = "Workspaces"

\* mutant: the Reply of an action inspected, an Err(message) made fatal.
ActionFatalOnErr(r) == r \in IoOutcomes \cup { "Err" }

\* mutant: read_line returning Ok(0) at end of stream not seen as a failure.
ActionFatalIgnoreEof(r) == r \in { "ReadErr", "Malformed" }

\* let _ = client.action(..)?; only the failure of execute leaves main, the
\* decoded Reply (Ok or Err) is dropped.
ActionFatal(r) == r \in IoOutcomes

\* mutant: a request written while the previous reply is still awaited.
CanWritePipelined(c) == c \in { "Connected", "AwaitingReply" }

\* execute is one write followed by one read on the single stream.
CanWrite(c) == c = "Connected"

FocusWindowRequest(w) == ReqAction(FocusWindow(w.id))

\* mutant: the flatten loop consuming instead of expelling.
ExpelRequestConsume == ReqAction(ConsumeWindowIntoColumn)

ExpelRequest == ReqAction(ExpelWindowFromColumn)

\* mutant: the 0-based loop index sent as it is.
FocusColumnRequestZeroBased(idx) == ReqAction(FocusColumn(idx))

FocusColumnRequest(idx) == ReqAction(FocusColumn(idx + 1))

\* mutant: the expel of the flatten loop repeated inside the build loop.
SetColumnDisplayRequestExpel == ReqAction(ExpelWindowFromColumn)

SetColumnDisplayRequest == ReqAction(SetColumnDisplay("Normal"))

SetWindowWidthRequest(width) == ReqAction(SetWindowWidth(None, SetProportion(width)))

ConsumeRequest == ReqAction(ConsumeWindowIntoColumn)

FocusColumnFirstRequest == ReqAction(FocusColumnFirst)

QuerySites == { "get_windows", "get_workspaces" }
ActionSites == { "focus_window", "expel", "focus_column", "set_display",
                 "set_width", "consume", "focus_first" }
CallSites == QuerySites \cup ActionSites

\* The request the call at pc writes.
CurrentRequest ==
    CASE pc = "get_windows" -> ReqWindows
      [] pc = "get_workspaces" -> ReqWorkspaces
      [] pc = "focus_window" -> FocusWindowRequest(current_workspace_windows[win_idx])
      [] pc = "expel" -> ExpelRequest
      [] pc = "focus_column" -> FocusColumnRequest(column_idx)
      [] pc = "set_display" -> SetColumnDisplayRequest
      [] pc = "set_width" -> SetWindowWidthRequest(column_width)
      [] pc = "consume" -> ConsumeRequest
      [] pc = "focus_first" -> FocusColumnFirstRequest

\* mutant: one consume per window of the slice, the first included.
WindowsToConsumeWhole ==
    EndWindow(column_idx, windows_per_column, window_count)
    - StartWindow(column_idx, windows_per_column)

\* end_window - start_window - 1 of the column being built
WindowsToConsume ==
    EndWindow(column_idx, windows_per_column, window_count)
    - StartWindow(column_idx, windows_per_column) - 1

let_vars == <<windows, workspaces, current_workspace, current_workspace_windows,
              window_count, num_columns, windows_per_column, column_width,
              columns_again>>
loop_vars == <<win_idx, column_idx, consumed, slices, broke>>
io_vars == <<sent, n_read, n_decoded>>
query_vars == <<q_windows, q_workspaces>>
reply_vars == <<all_handled, any_err>>

\* main returns Err: the process ends and the stream is dropped.
Abort == pc' = "done" /\ exit' = "err" /\ conn' = "Closed"

\* main returns Ok(()).
Finish == pc' = "done" /\ exit' = "ok" /\ conn' = "Closed"

\* The call returned to main, which goes on with statement next.
Return(next) == pc' = next /\ exit' = exit /\ conn' = "Connected"

\* The list a decoded reply carries.
ReplyPayload(r) ==
    IF r = "Windows" THEN srv_windows
    ELSE IF r = "Workspaces" THEN srv_workspaces
    ELSE <<>>

\* read_line and from_str of execute, given what the stream delivers.
Receive(r) ==
    /\ n_read' = IF r \in { "ReadErr", "Eof" } THEN n_read ELSE n_read + 1
    /\ n_decoded' = IF r \in DecodedOutcomes THEN n_decoded + 1 ELSE n_decoded
    /\ UNCHANGED <<sent, socket_path, connects>>

\* The compositor handles the action it was sent and answers r; only a
\* handled action changes its columns or focus.
ActionReceive(r) ==
    /\ Receive(r)
    /\ all_handled' = (all_handled /\ r = "Handled")
    /\ any_err' = (any_err \/ r = "Err")
    /\ \E e \in (IF r = "Handled"
                 THEN Effects(sent[Len(sent)].action, layout, focus)
                 ELSE { Placed(layout, focus) }) :
           /\ layout' = e.layout /\ focus' = e.focus
           /\ expelled' = (expelled \/ Len(e.layout) > Len(layout))
    /\ UNCHANGED <<srv_windows, srv_workspaces, query_vars, let_vars>>

\* ------------------------------------------------------------------ actions
\* mutant: a missing variable replaced by a default path (unwrap_or).
EnvFatalNever(present) == FALSE

\* .map_err(|_| anyhow!("NIRI_SOCKET environment variable not set"))?
EnvFatal(present) == ~present

\* std::env::var("NIRI_SOCKET"), absent => Err
ReadEnv ==
    /\ pc = "env"
    /\ \E present \in BOOLEAN :
           /\ socket_path' = IF present THEN "present" ELSE "missing"
           /\ pc' = IF EnvFatal(present) THEN "done" ELSE "connect"
           /\ exit' = IF EnvFatal(present) THEN "err" ELSE exit
    /\ UNCHANGED <<conn, connects, io_vars, query_vars, reply_vars,
                   plan_vars, srv_vars>>

\* NiriClient::new: UnixStream::connect and try_clone, either may fail.
Connect ==
    /\ pc = "connect"
    /\ connects' = connects + 1
    /\ \E ok \in BOOLEAN :
           IF ok THEN pc' = "get_windows" /\ exit' = exit /\ conn' = "Connected"
           ELSE pc' = "done" /\ exit' = "err" /\ conn' = conn
    /\ UNCHANGED <<socket_path, io_vars, query_vars, reply_vars,
                   plan_vars, srv_vars>>

\* execute, first half: writeln! of the encoded request; the write may fail.
ExecuteWrite ==
    /\ pc \in CallSites
    /\ CanWrite(conn)
    /\ \E written \in BOOLEAN :
           IF written
           THEN /\ sent' = Append(sent, CurrentRequest)
                /\ conn' = "AwaitingReply"
                /\ UNCHANGED <<pc, exit>>
           ELSE Abort /\ sent' = sent
    /\ UNCHANGED <<socket_path, connects, n_read, n_decoded, query_vars,
                   reply_vars, plan_vars, srv_vars>>

\* get_windows, after the write: the read, the decode and the match.
GetWindowsReply ==
    /\ pc = "get_windows" /\ conn = "AwaitingReply"
    /\ \E r \in Outcomes :
           /\ Receive(r)
           /\ q_windows' = r
           /\ IF WindowsReplyOk(r)
              THEN /\ windows' = ReplyPayload(r)
                   /\ Return("get_workspaces")
              ELSE windows' = windows /\ Abort
    /\ UNCHANGED <<q_workspaces, reply_vars, workspaces, current_workspace,
                   current_workspace_windows, window_count, num_columns,
                   windows_per_column, column_width, columns_again, loop_vars,
                   srv_vars>>

\* get_workspaces, after the write.
GetWorkspacesReply ==
    /\ pc = "get_workspaces" /\ conn = "AwaitingReply"
    /\ \E r \in Outcomes :
           /\ Receive(r)
           /\ q_workspaces' = r
           /\ IF WorkspacesReplyOk(r)
              THEN workspaces' = ReplyPayload(r) /\ Return("find_workspace")
              ELSE workspaces' = workspaces /\ Abort
    /\ UNCHANGED <<q_windows, reply_vars, windows, current_workspace,
                   current_workspace_windows, window_count, num_columns,
                   windows_per_column, column_width, columns_again, loop_vars,
                   srv_vars>>

\* main, from the search for the focused workspace to the two early returns.
FindWorkspace ==
    /\ pc = "find_workspace"
    /\ LET found == FirstFocused(workspaces)
       IN  IF found = None
           THEN Abort /\ UNCHANGED <<current_workspace, current_workspace_windows>>
           ELSE LET kept == FilterWindows(windows, CHOOSE id \in found : TRUE)
                IN  /\ current_workspace' = found
                    /\ current_workspace_windows' = kept
                    /\ IF NoWindows(kept) THEN Finish
                       ELSE pc' = "plan_count" /\ UNCHANGED <<exit, conn>>
    /\ UNCHANGED <<socket_path, connects, io_vars, query_vars, reply_vars,
                   windows, workspaces, window_count, num_columns,
                   windows_per_column, column_width, columns_again, loop_vars,
                   srv_vars>>

\* let window_count, num_columns, windows_per_column, column_width
PlanCount ==
    /\ pc = "plan_count"
    /\ window_count' = Len(current_workspace_windows)
    /\ num_columns' = NumColumns(window_count')
    /\ windows_per_column' = WindowsPerColumn(window_count', num_columns')
    /\ column_width' = ColumnWidth(num_columns')
    /\ pc' = IF 0 < Len(current_workspace_windows)
             THEN "focus_window" ELSE "column_loop"
    /\ UNCHANGED <<exit, conn, socket_path, connects, io_vars, query_vars,
                   reply_vars, windows, workspaces, current_workspace,
                   current_workspace_windows, columns_again, loop_vars,
                   srv_vars>>

\* client.action(Action::FocusWindow { id: window.id })?, after the write.
FocusWindowReply ==
    /\ pc = "focus_window" /\ conn = "AwaitingReply"
    /\ \E r \in Outcomes :
           /\ ActionReceive(r)
           /\ IF ActionFatal(r) THEN Abort ELSE Return("expel")
    /\ UNCHANGED loop_vars

\* mutant: the flatten loop never moving on to the next window.
ExpelReplyNoAdvance ==
    /\ pc = "expel" /\ conn = "AwaitingReply"
    /\ \E r \in Outcomes :
           /\ ActionReceive(r)
           /\ IF ActionFatal(r) THEN Abort ELSE Return("focus_window")
    /\ UNCHANGED loop_vars

\* client.action(Action::ExpelWindowFromColumn {})?, after the write, and the
\* step of the flatten loop.
ExpelReply ==
    /\ pc = "expel" /\ conn = "AwaitingReply"
    /\ \E r \in Outcomes :
           /\ ActionReceive(r)
           /\ IF ActionFatal(r) THEN Abort /\ win_idx' = win_idx
              ELSE /\ win_idx' = win_idx + 1
                   /\ Return(IF win_idx < Len(current_workspace_windows)
                             THEN "focus_window" ELSE "column_loop")
    /\ UNCHANGED <<column_idx, consumed, slices, broke>>

\* The head of the build loop: for column_idx in 0..num_columns, the slice
\* bounds and the break.
ColumnLoop ==
    /\ pc = "column_loop"
    /\ LET start_window == StartWindow(column_idx, windows_per_column)
           end_window == EndWindow(column_idx, windows_per_column, window_count)
       IN  IF column_idx >= num_columns
           THEN pc' = "focus_first" /\ UNCHANGED <<slices, broke>>
           ELSE IF start_window >= window_count
           THEN pc' = "focus_first" /\ broke' = TRUE /\ slices' = slices
           ELSE /\ pc' = "focus_column"
                /\ slices' = Append(slices, <<start_window, end_window>>)
                /\ broke' = broke
    /\ UNCHANGED <<exit, conn, socket_path, connects, io_vars, query_vars,
                   reply_vars, let_vars, win_idx, column_idx, consumed,
                   srv_vars>>

\* client.action(Action::FocusColumn { index: column_idx + 1 })?, after the write.
FocusColumnReply ==
    /\ pc = "focus_column" /\ conn = "AwaitingReply"
    /\ \E r \in Outcomes :
           /\ ActionReceive(r)
           /\ IF ActionFatal(r) THEN Abort ELSE Return("set_display")
    /\ UNCHANGED loop_vars

\* client.action(Action::SetColumnDisplay { .. })?, after the write.
SetColumnDisplayReply ==
    /\ pc = "set_display" /\ conn = "AwaitingReply"
    /\ \E r \in Outcomes :
           /\ ActionReceive(r)
           /\ IF ActionFatal(r) THEN Abort ELSE Return("set_width")
    /\ UNCHANGED loop_vars

\* client.action(Action::SetWindowWidth { .. })?, after the write, and the
\* entry of the consume loop.
SetWindowWidthReply ==
    /\ pc = "set_width" /\ conn = "AwaitingReply"
    /\ \E r \in Outcomes :
           /\ ActionReceive(r)
           /\ IF ActionFatal(r) THEN Abort /\ UNCHANGED <<column_idx, consumed>>
              ELSE /\ consumed' = 0
                   /\ IF 0 < WindowsToConsume
                      THEN Return("consume") /\ column_idx' = column_idx
                      ELSE Return("column_loop") /\ column_idx' = column_idx + 1
    /\ UNCHANGED <<win_idx, slices, broke>>

\* client.action(Action::ConsumeWindowIntoColumn {})?, after the write, and
\* the step of the consume loop.
ConsumeReply ==
    /\ pc = "consume" /\ conn = "AwaitingReply"
    /\ \E r \in Outcomes :
           /\ ActionReceive(r)
           /\ IF ActionFatal(r) THEN Abort /\ UNCHANGED <<column_idx, consumed>>
              ELSE /\ consumed' = consumed + 1
                   /\ IF consumed + 1 < WindowsToConsume
                      THEN Return("consume") /\ column_idx' = column_idx
                      ELSE Return("column_loop") /\ column_idx' = column_idx + 1
    /\ UNCHANGED <<win_idx, slices, broke>>

\* client.action(Action::FocusColumnFirst {})?, after the write, and Ok(()).
FocusColumnFirstReply ==
    /\ pc = "focus_first" /\ conn = "AwaitingReply"
    /\ \E r \in Outcomes :
           /\ ActionReceive(r)
           /\ IF ActionFatal(r) THEN Abort ELSE Finish
    /\ UNCHANGED loop_vars

\* ------------------------------------------------------ the column loop alone
\* The flatten loop passed over: it takes no part in the column arithmetic.
PlanSkipFlatten ==
    /\ pc = "focus_window"
    /\ pc' = "column_loop"
    /\ UNCHANGED <<exit, conn, socket_path, connects, io_vars, query_vars,
                   reply_vars, let_vars, loop_vars, srv_vars>>

\* The body of the build loop without its requests: on to the next column.
PlanSkipColumn ==
    /\ pc = "focus_column"
    /\ pc' = "column_loop"
    /\ column_idx' = column_idx + 1
    /\ UNCHANGED <<exit, conn, socket_path, connects, io_vars, query_vars,
                   reply_vars, let_vars, win_idx, consumed, slices, broke,
                   srv_vars>>

\* num_columns applied to the column count it returned.
PlanAgain ==
    /\ pc = "focus_first"
    /\ columns_again' = NumColumns(num_columns)
    /\ pc' = "plan_done"
    /\ UNCHANGED <<exit, conn, socket_path, connects, io_vars, query_vars,
                   reply_vars, windows, workspaces, current_workspace,
                   current_workspace_windows, window_count, num_columns,
                   windows_per_column, column_width, loop_vars, srv_vars>>

\* ----------------------------------------------------------- specifications
\* main() starts; nothing is read, connected or sent yet.
InitClient ==
    /\ pc = "env" /\ exit = "running" /\ conn = "Unconnected"
    /\ socket_path = "unread" /\ connects = 0
    /\ sent = <<>> /\ n_read = 0 /\ n_decoded = 0
    /\ q_windows = "" /\ q_workspaces = "" /\ all_handled = TRUE /\ any_err = FALSE

InitPlan ==
    /\ windows = <<>> /\ workspaces = <<>>
    /\ current_workspace = None /\ current_workspace_windows = <<>>
    /\ window_count = 0 /\ num_columns = 0 /\ windows_per_column = 0
    /\ column_width = <<0, 1>> /\ columns_again = 0
    /\ win_idx = 1 /\ column_idx = 0 /\ consumed = 0
    /\ slices = <<>> /\ broke = FALSE

\* The ids of the windows the compositor shows on the workspace the client
\* will pick, in the order of the Windows reply.
ShownWindows(wins, wss) ==
    LET found == FirstFocused(wss)
    IN  IF found = None THEN <<>>
        ELSE LET on == SelectSeq(wins, LAMBDA w : w.workspace_id = found)
             IN  [i \in 1 .. Len(on) |-> on[i].id]

\* Any windows on any workspaces; every shown window in a column of its own.
Init ==
    /\ InitClient /\ InitPlan
    /\ srv_workspaces \in WorkspaceLists
    /\ srv_windows \in WindowLists(MaxWindows)
    /\ LET shown == ShownWindows(srv_windows, srv_workspaces)
       IN  /\ layout = [i \in 1 .. Len(shown) |-> <<shown[i]>>]
           /\ focus = IF shown = <<>> THEN None ELSE Some(shown[1])
    /\ expelled = FALSE

\* One focused workspace holding every window, in any arrangement of columns
\* and with any window focused.
InitLayout ==
    /\ InitClient /\ InitPlan
    /\ srv_workspaces = <<Workspace(1, TRUE)>>
    /\ \E k \in 0 .. MaxLayoutWindows :
           /\ srv_windows = [i \in 1 .. k |-> Window(WindowId(k, i), Some(1))]
           /\ layout \in Arrangements({ WindowId(k, i) : i \in 1 .. k })
           /\ focus \in IF k = 0 THEN { None }
                        ELSE { Some(WindowId(k, i)) : i \in 1 .. k }
    /\ expelled = FALSE

\* main() past its queries and early returns, with 1 .. MaxCount windows on
\* the focused workspace: where the column arithmetic starts.
InitCount ==
    /\ pc = "plan_count" /\ exit = "running" /\ conn = "Connected"
    /\ socket_path = "present" /\ connects = 1
    /\ sent = <<ReqWindows, ReqWorkspaces>> /\ n_read = 2 /\ n_decoded = 2
    /\ q_windows = "Windows" /\ q_workspaces = "Workspaces"
    /\ all_handled = TRUE /\ any_err = FALSE
    /\ srv_workspaces = <<Workspace(1, TRUE)>>
    /\ \E n \in 1 .. MaxCount :
           srv_windows = [i \in 1 .. n |-> Window(WindowId(n, i), Some(1))]
    /\ layout = [i \in 1 .. Len(srv_windows) |-> <<srv_windows[i].id>>]
    /\ focus = Some(srv_windows[1].id) /\ expelled = FALSE
    /\ windows = srv_windows /\ workspaces = srv_workspaces
    /\ current_workspace = Some(1) /\ current_workspace_windows = windows
    /\ window_count = 0 /\ num_columns = 0 /\ windows_per_column = 0
    /\ column_width = <<0, 1>> /\ columns_again = 0
    /\ win_idx = 1 /\ column_idx = 0 /\ consumed = 0
    /\ slices = <<>> /\ broke = FALSE

Next ==
    \/ ReadEnv
    \/ Connect
    \/ ExecuteWrite
    \/ GetWindowsReply
    \/ GetWorkspacesReply
    \/ FindWorkspace
    \/ PlanCount
    \/ FocusWindowReply
    \/ ExpelReply
    \/ ColumnLoop
    \/ FocusColumnReply
    \/ SetColumnDisplayReply
    \/ SetWindowWidthReply
    \/ ConsumeReply
    \/ FocusColumnFirstReply

Spec == Init /\ [][Next]_vars

LayoutSpec == InitLayout /\ [][Next]_vars

\* main() is a sequential program that is never suspended for good: while a
\* statement can run, or a reply the peer sends can be read, it eventually is.
LiveSpec == Init /\ [][Next]_vars /\ WF_vars(Next)


PlanNext ==
    \/ PlanCount
    \/ PlanSkipFlatten
    \/ ColumnLoop
    \/ PlanSkipColumn
    \/ PlanAgain

PlanSpec == InitCount /\ [][PlanNext]_vars

\* ------------------------------------------------------------------- claims
CeilDiv(a, b) == (a + b - 1) \div b

RECURSIVE SumSizes(_)
SumSizes(ss) ==
    IF ss = <<>> THEN 0 ELSE (Head(ss)[2] - Head(ss)[1]) + SumSizes(Tail(ss))

\* k is the ceiling of the square root of n.
IsCeilSqrt(k, n) == k * k >= n /\ (k = 0 \/ (k - 1) * (k - 1) < n)

\* C1: for every window count n >= 1, num_columns(n) is the smaller of n and
\* the ceiling of the square root of n, and lies in 1 .. n.
C1_NumColumns ==
    pc # "plan_count" =>
        /\ window_count >= 1
        /\ \E k \in 0 .. window_count :
               IsCeilSqrt(k, window_count) /\ num_columns = Min(k, window_count)
        /\ 1 <= num_columns /\ num_columns <= window_count

\* C1 witness: five windows were counted and three columns planned.
C1_Witness == pc = "column_loop" /\ window_count = 5 /\ num_columns = 3

\* C2: once the build loop is over, the slices [i*w, min((i+1)*w, n)) of the
\* columns it processed are those of the indices i < ceil(n / w), none of
\* them is empty, and their sizes add up to n.
C2_SlicesCoverAll ==
    pc = "focus_first" =>
        LET n == window_count
            w == windows_per_column
        IN  /\ w >= 1
            /\ Len(slices) = CeilDiv(n, w)
            /\ \A i \in 0 .. CeilDiv(n, w) - 1 :
                   /\ slices[i + 1] = <<i * w, Min((i + 1) * w, n)>>
                   /\ i * w < Min((i + 1) * w, n)
            /\ SumSizes(slices) = n

\* C2 witness: five windows were sliced into columns of 2, 2 and 1.
C2_Witness ==
    /\ pc = "focus_first" /\ window_count = 5
    /\ slices = << <<0, 2>>, <<2, 4>>, <<4, 5>> >>

\* The ids, in reply order, of the windows on the workspace the run works on.
Shown == ShownWindows(srv_windows, srv_workspaces)

HasFocusedWorkspace ==
    \E i \in 1 .. Len(srv_workspaces) : srv_workspaces[i].is_focused

\* The variant name of the i-th request written.
NameAt(i) == IF IsAction(sent[i]) THEN sent[i].action.name ELSE sent[i].request

FlattenNames == { "FocusWindow", "ExpelWindowFromColumn" }
BuildNames == { "FocusColumn", "SetColumnDisplay", "SetWindowWidth",
                "ConsumeWindowIntoColumn" }

\* Focus then expel, for each id in turn.
RECURSIVE FlattenPlan(_)
FlattenPlan(ids) ==
    IF ids = <<>> THEN <<>>
    ELSE <<ReqAction(FocusWindow(Head(ids))), ReqAction(ExpelWindowFromColumn)>>
         \o FlattenPlan(Tail(ids))

\* The requests of one column holding size windows, c columns in all.
ColumnPlan(i, size, c) ==
    <<ReqAction(FocusColumn(i + 1)),
      ReqAction(SetColumnDisplay("Normal")),
      ReqAction(SetWindowWidth(None, SetProportion(<<100, c>>)))>>
    \o [j \in 1 .. size - 1 |-> ReqAction(ConsumeWindowIntoColumn)]

RECURSIVE BuildPlanFrom(_, _, _, _)
BuildPlanFrom(i, n, c, w) ==
    IF i >= c \/ i * w >= n THEN <<>>
    ELSE ColumnPlan(i, Min((i + 1) * w, n) - i * w, c)
         \o BuildPlanFrom(i + 1, n, c, w)

\* The requests of the build phase for n windows, column after column.
BuildPlan(n) ==
    LET c == NumColumns(n)
    IN  BuildPlanFrom(0, n, c, CeilDiv(n, c))

\* Every request of a complete run over the windows ids.
FullPlan(ids) ==
    <<ReqWindows, ReqWorkspaces>> \o FlattenPlan(ids) \o BuildPlan(Len(ids))
    \o <<ReqAction(FocusColumnFirst)>>

\* C3: with no window on the focused workspace no Action request is sent and
\* no column count is computed; once both queries are answered the run ends
\* with success.
C3_NoWindowsNoActions ==
    Shown = <<>> =>
        /\ \A i \in 1 .. Len(sent) : ~IsAction(sent[i])
        /\ num_columns = 0
        /\ pc \notin ActionSites \cup { "plan_count", "column_loop" }
        /\ (/\ HasFocusedWorkspace /\ pc = "done"
            /\ q_windows = "Windows" /\ q_workspaces = "Workspaces") => exit = "ok"

\* C3 witness: windows exist, on another workspace and on none, the focused
\* workspace is empty and the run has ended with success.
C3_Witness ==
    /\ pc = "done" /\ exit = "ok" /\ HasFocusedWorkspace /\ Shown = <<>>
    /\ \E i \in 1 .. Len(srv_windows) : srv_windows[i].workspace_id = None
    /\ \E i \in 1 .. Len(srv_windows) : srv_windows[i].workspace_id # None

\* C4: a decoded reply to the Windows or the Workspaces query that is a
\* failure or carries another payload ends the run with an error: the query
\* was the last request written, its payload was not taken, and no Action
\* request was sent.
C4_QueryMismatchFatal ==
    /\ q_windows \in DecodedOutcomes \ { "Windows" } =>
           /\ pc = "done" /\ exit = "err"
           /\ windows = <<>> /\ sent = <<ReqWindows>>
    /\ q_workspaces \in DecodedOutcomes \ { "Workspaces" } =>
           /\ pc = "done" /\ exit = "err"
           /\ workspaces = <<>> /\ sent = <<ReqWindows, ReqWorkspaces>>

\* C4 witness: the Windows query was answered with a non-empty Workspaces
\* payload and the run has ended with an error.
C4_Witness ==
    /\ q_windows = "Workspaces" /\ srv_workspaces # <<>>
    /\ pc = "done" /\ exit = "err"

\* A run that ended with success sent the whole plan, in order.
C5_WholePlanSent ==
    (pc = "done" /\ exit = "ok" /\ Shown # <<>>) => sent = FullPlan(Shown)

\* A decoded reply to an action, Err(message) included, does not end the run
\* with an error: main goes on to its next statement.
C5_DecodedReplyGoesOn ==
    (pc \in ActionSites /\ conn = "AwaitingReply" /\ n_decoded' = n_decoded + 1) =>
        /\ exit' # "err"
        /\ IF pc = "focus_first" THEN pc' = "done" /\ exit' = "ok"
           ELSE pc' \in ActionSites \cup { "column_loop" } /\ conn' = "Connected"

\* C5: a failure reply to an action never aborts the run; whatever the
\* replies, a run without transport failure sends every action of the plan in
\* order and ends with success.
C5_ActionFailuresSwallowed ==
    []C5_WholePlanSent /\ [][C5_DecodedReplyGoesOn]_vars

\* C5 witness: a run over three or more windows ended with success although
\* some action was answered Err.
C5_Witness ==
    pc = "done" /\ exit = "ok" /\ any_err /\ Len(Shown) >= 3

\* At most one request is unanswered, and none while the client is between
\* calls.
C6_OneInFlight ==
    /\ Len(sent) - n_read \in { 0, 1 }
    /\ conn = "Connected" => n_read = Len(sent) /\ n_decoded = Len(sent)

\* A request is written only when every earlier reply was read and decoded.
C6_WriteAfterReply ==
    Len(sent') > Len(sent) =>
        /\ Len(sent') = Len(sent) + 1
        /\ n_read = Len(sent) /\ n_decoded = Len(sent)

\* C6: requests and replies strictly alternate on the stream.
C6_Alternation == []C6_OneInFlight /\ [][C6_WriteAfterReply]_vars

\* C6 witness: the fifth request is written and its reply awaited.
C6_Witness == Len(sent) = 5 /\ n_read = 4 /\ conn = "AwaitingReply"

\* C7 (as claimed): after a run in which every action was handled, column i
\* holds exactly the windows at positions [i*w, min((i+1)*w, n)) of the
\* Windows reply.
C7_ColumnsFollowReplyOrder ==
    (pc = "done" /\ exit = "ok" /\ all_handled /\ Shown # <<>>) =>
        LET n == Len(Shown)
            w == CeilDiv(n, NumColumns(n))
        IN  \A i \in 0 .. Len(layout) - 1 :
                SeqToSet(layout[i + 1]) =
                    { Shown[j + 1] : j \in (i * w) .. (Min((i + 1) * w, n) - 1) }

\* C8: no flatten request follows a build request, FocusColumnFirst is
\* followed by nothing, and a successful run that sent build requests ends
\* with FocusColumnFirst.
C8_PhasesOrdered ==
    /\ \A i, j \in 1 .. Len(sent) :
           (NameAt(i) \in BuildNames /\ NameAt(j) \in FlattenNames) => j < i
    /\ \A i \in 1 .. Len(sent) : NameAt(i) = "FocusColumnFirst" => i = Len(sent)
    /\ (pc = "done" /\ exit = "ok" /\ \E i \in 1 .. Len(sent) : NameAt(i) \in BuildNames)
           => NameAt(Len(sent)) = "FocusColumnFirst"

\* C8 witness: a run over three or more windows went through both phases.
C8_Witness ==
    /\ pc = "done" /\ exit = "ok" /\ Len(Shown) >= 3
    /\ \E i \in 1 .. Len(sent) : NameAt(i) = "ConsumeWindowIntoColumn"

\* C9: the flatten requests are, right after the two queries, FocusWindow(id)
\* then ExpelWindowFromColumn for each window of the focused workspace in
\* reply order, once each, and no FocusWindow or Expel is sent elsewhere.
C9_FlattenInReplyOrder ==
    LET plan == FlattenPlan(Shown)
    IN  /\ \A i \in 1 .. Len(sent) :
               IF i >= 3 /\ i - 2 <= Len(plan)
               THEN sent[i] = plan[i - 2]
               ELSE NameAt(i) \notin FlattenNames
        /\ pc \in { "column_loop", "focus_column", "focus_first" }
               => Len(sent) >= 2 + Len(plan)

\* C9 witness: the flatten phase is over; the first and the third window of
\* the reply were on the focused workspace, the second on another workspace.
C9_Witness ==
    /\ pc = "column_loop" /\ column_idx = 0 /\ Len(srv_windows) = 3
    /\ Shown = <<srv_windows[1].id, srv_windows[3].id>>
    /\ srv_windows[2].workspace_id # None

\* C10: after the flatten requests the requests are, column after column,
\* FocusColumn(i+1), SetColumnDisplay(Normal), SetWindowWidth(None, 100/c)
\* and one ConsumeWindowIntoColumn per window of the slice beyond the first,
\* with nothing in between, then FocusColumnFirst.
C10_BuildRequests ==
    LET n == Len(Shown)
        plan == BuildPlan(n) \o <<ReqAction(FocusColumnFirst)>>
        off == 2 + 2 * n
    IN  /\ \A i \in off + 1 .. Len(sent) :
               i - off <= Len(plan) /\ sent[i] = plan[i - off]
        /\ (pc = "done" /\ exit = "ok" /\ n > 0) => Len(sent) = off + Len(plan)

\* C10 witness: a run over three windows built a column of two windows and a
\* column of one.
C10_Witness ==
    /\ pc = "done" /\ exit = "ok" /\ Len(Shown) = 3
    /\ slices = << <<0, 2>>, <<2, 3>> >>

\* A read that gave no decoded reply ends the run with an error.
C11_FailedReadEnds ==
    (conn = "AwaitingReply" /\ n_decoded' = n_decoded) =>
        pc' = "done" /\ exit' = "err" /\ sent' = sent

\* A write that did not go out ends the run with an error.
C11_FailedWriteEnds ==
    (conn = "Connected" /\ pc \in CallSites /\ sent' = sent) =>
        pc' = "done" /\ exit' = "err"

\* After the error nothing is written and nothing is connected.
C11_NothingAfterError ==
    exit = "err" => sent' = sent /\ connects' = connects /\ exit' = "err"

\* C11: a failed write, read or decode of a call (the peer closing the stream
\* included), in a query or in an action, ends the run with an error; no
\* request is written afterwards and connect is not called again.
C11_TransportFailureFatal ==
    /\ [](connects <= 1 /\ (exit = "err" => pc = "done"))
    /\ [][C11_FailedReadEnds /\ C11_FailedWriteEnds /\ C11_NothingAfterError]_vars

\* C11 witness: the reply to the fourth request, an action, never arrived and
\* the run has ended with an error.
C11_Witness ==
    /\ pc = "done" /\ exit = "err" /\ Len(sent) = 4 /\ n_read = 3
    /\ IsAction(sent[4])

\* C12: when the Workspaces reply flags no workspace as focused, no Action
\* request is sent, no plan is made, and the run can only end with an error.
C12_NoFocusedWorkspaceFatal ==
    ~HasFocusedWorkspace =>
        /\ \A i \in 1 .. Len(sent) : ~IsAction(sent[i])
        /\ pc \notin ActionSites \cup { "plan_count", "column_loop" }
        /\ current_workspace = None
        /\ pc = "done" => exit = "err"

\* C12 witness: workspaces and windows were listed, none focused, and the run
\* ended with an error after both queries.
C12_Witness ==
    /\ ~HasFocusedWorkspace /\ srv_workspaces # <<>> /\ srv_windows # <<>>
    /\ q_workspaces = "Workspaces" /\ workspaces = srv_workspaces
    /\ pc = "done" /\ exit = "err"

\* The requests written so far that carry the action named name.
SentNamed(name) == { i \in 1 .. Len(sent) : NameAt(i) = name }

\* C13: with exactly one window on the focused workspace no
\* ConsumeWindowIntoColumn is sent, at most one column is built, its width is
\* 100, and a run that ends with success has built one column and sent
\* exactly one SetWindowWidth.
C13_SingleWindow ==
    Len(Shown) = 1 =>
        /\ SentNamed("ConsumeWindowIntoColumn") = {}
        /\ Cardinality(SentNamed("SetWindowWidth")) <= 1
        /\ Cardinality(SentNamed("FocusColumn")) <= 1
        /\ \A i \in SentNamed("SetWindowWidth") :
               LET p == sent[i].action.change.proportion
               IN  /\ sent[i].action.change.size_change = "SetProportion"
                   /\ p[1] = 100 * p[2]
        /\ (pc = "done" /\ exit = "ok") =>
               /\ num_columns = 1 /\ slices = << <<0, 1>> >>
               /\ Cardinality(SentNamed("SetWindowWidth")) = 1
               /\ Cardinality(SentNamed("FocusColumn")) = 1

\* C13 witness: a run over one window, with other windows elsewhere, ended
\* with success.
C13_Witness ==
    /\ Len(Shown) = 1 /\ Len(srv_windows) > 1
    /\ pc = "done" /\ exit = "ok"

\* C14: when NIRI_SOCKET is absent the run has ended with an error, connect
\* was never called, the client is Unconnected and nothing was written.
C14_MissingEnvFatal ==
    socket_path = "missing" =>
        /\ pc = "done" /\ exit = "err"
        /\ connects = 0 /\ conn = "Unconnected"
        /\ sent = <<>> /\ n_read = 0

\* C14 witness: the variable was read and found absent.
C14_Witness == socket_path = "missing" /\ pc = "done" /\ exit = "err"

\* C15: num_columns applied to its own result is defined (at least 1) and is
\* at most that result.
C15_SelfApplication ==
    pc = "plan_done" =>
        /\ window_count >= 1 /\ num_columns >= 1
        /\ 1 <= columns_again /\ columns_again <= num_columns

\* C15 witness: 17 windows give 5 columns, and 5 gives 3.
C15_Witness ==
    pc = "plan_done" /\ window_count = 17 /\ num_columns = 5 /\ columns_again = 3

\* C18: the break of the build loop is never taken; when the loop is over
\* every index 0 .. num_columns-1 had a non-empty slice, num_columns columns
\* were built, and the width 100/c is the share of the columns built.
C18_BreakNeverTaken ==
    /\ ~broke
    /\ pc \in { "focus_first", "plan_done" } =>
           /\ Len(slices) = num_columns
           /\ \A i \in 0 .. num_columns - 1 :
                  /\ i * windows_per_column < window_count
                  /\ slices[i + 1][1] < slices[i + 1][2]
           /\ column_width = <<100, Len(slices)>>

\* C18 witness: seven windows, three columns built, the loop over.
C18_Witness ==
    /\ pc = "focus_first" /\ window_count = 7 /\ Len(slices) = 3 /\ ~broke
    /\ column_idx = 3

\* The windows the compositor holds in its columns, with repetition counted.
LayoutWindowCount == SumSizes([c \in 1 .. Len(layout) |-> <<0, Len(layout[c])>>])

LayoutWindows == UNION { SeqToSet(layout[c]) : c \in 1 .. Len(layout) }

\* The flatten loop is over and the build loop has not yet sent a request.
FlattenOver ==
    /\ pc \in { "column_loop", "focus_column" }
    /\ column_idx = 0 /\ conn = "Connected"

\* C16: when every action was handled, at the end of the flatten phase every
\* window of the focused workspace is the only window of its column,
\* whatever the grouping the run started from.
C16_FlattenedToSingles ==
    (FlattenOver /\ all_handled) =>
        /\ Len(layout) = Len(Shown)
        /\ \A c \in 1 .. Len(layout) : Len(layout[c]) = 1
        /\ LayoutWindows = SeqToSet(Shown)

\* C16 witness: four windows, some of them moved out of a shared column by an
\* expel, stand in four columns at the end of the flatten phase.
C16_Witness ==
    /\ FlattenOver /\ all_handled /\ expelled
    /\ Len(Shown) = 4 /\ Len(layout) = 4

\* C17: after a run in which every action was handled the focused workspace
\* has c = min(ceil(sqrt n), n) columns, column i holds min(w, n - i*w)
\* windows with w = ceil(n / c), and the n windows are all still there.
C17_BalancedColumns ==
    (pc = "done" /\ exit = "ok" /\ all_handled /\ Shown # <<>>) =>
        LET n == Len(Shown)
            c == Min(CHOOSE k \in 0 .. n : IsCeilSqrt(k, n), n)
            w == CeilDiv(n, c)
        IN  /\ Len(layout) = c
            /\ \A i \in 0 .. Len(layout) - 1 :
                   Len(layout[i + 1]) = Min(w, n - i * w)
            /\ LayoutWindows = SeqToSet(Shown)
            /\ LayoutWindowCount = n

\* C17 witness: four windows, regrouped by the run, end in two columns of two.
C17_Witness ==
    /\ pc = "done" /\ exit = "ok" /\ all_handled /\ expelled
    /\ Len(Shown) = 4 /\ Len(layout) = 2
    /\ Len(layout[1]) = 2 /\ Len(layout[2]) = 2

\* The requests of the longest run over n windows: two queries, two per
\* window in the flatten loop, three per column and one per further window
\* in the build loop, and FocusColumnFirst.
MostRequests(n) == 2 + 2 * n + 3 * NumColumns(n) + (n - NumColumns(n)) + 1

\* C19: when every request is answered the run terminates, in success or in
\* error, after finitely many requests: no more than the plan holds.
C19_Terminates ==
    /\ <>(pc = "done" /\ exit \in { "ok", "err" })
    /\ [](Len(sent) <= MostRequests(Len(Shown)))
    /\ [](pc = "done" <=> exit # "running")

\* C19 witness: a run over three windows has ended after writing every
\* request of its plan.
C19_Witness ==
    /\ pc = "done" /\ exit = "ok" /\ Len(Shown) = 3
    /\ Len(sent) = MostRequests(3)

\* The first workspace of the Workspaces reply, in reply order, whose focused
\* flag is set.
FirstFlagged ==
    CHOOSE i \in 1 .. Len(srv_workspaces) :
        /\ srv_workspaces[i].is_focused
        /\ \A j \in 1 .. i - 1 : ~srv_workspaces[j].is_focused

SeveralFocused ==
    Cardinality({ i \in 1 .. Len(srv_workspaces) : srv_workspaces[i].is_focused }) > 1

\* C20: when several workspaces are flagged focused the search does not
\* fail: the first flagged workspace of the reply is taken, only windows of
\* that workspace are the target of a FocusWindow, and a run whose calls all
\* went through ends with success.
C20_FirstFocusedTaken ==
    SeveralFocused =>
        /\ (q_workspaces = "Workspaces" /\ pc # "find_workspace") =>
               current_workspace = Some(srv_workspaces[FirstFlagged].id)
        /\ \A i \in SentNamed("FocusWindow") :
               \E k \in 1 .. Len(srv_windows) :
                   /\ srv_windows[k].id = sent[i].action.id
                   /\ srv_windows[k].workspace_id
                          = Some(srv_workspaces[FirstFlagged].id)
        /\ (pc = "done" /\ n_decoded = Len(sent) /\ Len(sent) >= 3
                /\ NameAt(Len(sent)) = "FocusColumnFirst") => exit = "ok"

\* C20 witness: two workspaces flagged, windows on both, the run ended with
\* success after focusing a window.
C20_Witness ==
    /\ SeveralFocused /\ pc = "done" /\ exit = "ok"
    /\ SentNamed("FocusWindow") # {}
    /\ \E k \in 1 .. Len(srv_windows) :
           /\ srv_windows[k].workspace_id # None
           /\ srv_windows[k].workspace_id # Some(srv_workspaces[FirstFlagged].id)

====
